---- MODULE Spec2Model ----
(***************************************************************************)
(* Model of sketchfab_downloader_standalone.py: the paginated catalog      *)
(* fetch (get_user_models), the license predicate and the sequential       *)
(* download loop (download_author_models), and the interactive main().     *)
(* Strings are sequences of one-character strings so that lower(),         *)
(* strip(), replace() and the substring tests are computed, not assumed.   *)
(***************************************************************************)
EXTENDS Integers, Sequences, FiniteSets, TLC

VARIABLES pc, entry, run,
          token_in, user_in, label_in,
          api_token, username, allowed_licenses,
          url, models, i, successful, failed, skipped_license,
          license_result,
          remote_pages, resolveResp, payloadResp,
          fs, dirs, log, fs1, log1

vars == <<pc, entry, run, token_in, user_in, label_in, api_token, username,
          allowed_licenses, url, models, i, successful, failed,
          skipped_license, license_result, remote_pages, resolveResp,
          payloadResp, fs, dirs, log, fs1, log1>>

-----------------------------------------------------------------------------
(* Bounds *)

MaxLabelLen == 5
MaxFetchPages == 3
MaxPages == 2

-----------------------------------------------------------------------------
(* Python string operations *)

UpperChars == <<"A","B","C","D","E","F","G","H","I","J","K","L","M",
                "N","O","P","Q","R","S","T","U","V","W","X","Y","Z">>
LowerChars == <<"a","b","c","d","e","f","g","h","i","j","k","l","m",
                "n","o","p","q","r","s","t","u","v","w","x","y","z">>
DigitChars == <<"0","1","2","3","4","5","6","7","8","9">>

Range(s) == {s[k] : k \in 1..Len(s)}

UpperSet == Range(UpperChars)
LowerSet == Range(LowerChars)
AlnumSet == UpperSet \cup LowerSet \cup Range(DigitChars)
ToLower == [c \in UpperSet |-> LowerChars[CHOOSE k \in 1..26 : UpperChars[k] = c]]

SetMin(S) == CHOOSE m \in S : \A n \in S : m <= n
SetMax(S) == CHOOSE m \in S : \A n \in S : m >= n

LowerChar(c) == IF c \in UpperSet THEN ToLower[c] ELSE c

Lower(s) == [k \in 1..Len(s) |-> LowerChar(s[k])]

IsSpace(c) == c \in {" ", "\t", "\n"}

IsAlnum(c) == c \in AlnumSet

Strip(s) ==
    LET keep == {k \in 1..Len(s) : ~IsSpace(s[k])}
    IN  IF keep = {} THEN <<>> ELSE SubSeq(s, SetMin(keep), SetMax(keep))

Replace(s, a, b) == [k \in 1..Len(s) |-> IF s[k] = a THEN b ELSE s[k]]

Contains(s, t) ==
    \E k \in 0..(Len(s) - Len(t)) : \A j \in 1..Len(t) : s[k + j] = t[j]

Truthy(s) == Len(s) > 0

-----------------------------------------------------------------------------
(* String literals of the program *)

s_by == <<"b","y">>
s_cc == <<"c","c">>
s_cc0 == <<"c","c","0">>
s_cc_0 == <<"c","c"," ","0">>
s_nc == <<"n","c">>
s_nd == <<"n","d">>
s_sa == <<"s","a">>
s_attribution == <<"a","t","t","r","i","b","u","t","i","o","n">>
s_noncommercial == <<"n","o","n","c","o","m","m","e","r","c","i","a","l">>
s_noderivatives == <<"n","o","d","e","r","i","v","a","t","i","v","e","s">>
s_sharealike == <<"s","h","a","r","e","a","l","i","k","e">>
s_free_standard == <<"f","r","e","e"," ","s","t","a","n","d","a","r","d">>
s_standard == <<"s","t","a","n","d","a","r","d">>
s_downloads == <<"d","o","w","n","l","o","a","d","s">>
s_zip == <<".","z","i","p">>
s_metadata == <<"m","o","d","e","l","s","_","m","e","t","a","d","a","t","a",
                ".","j","s","o","n">>

DefaultLicenses == <<s_cc0, s_by, s_free_standard, s_standard>>

-----------------------------------------------------------------------------
(* License check of download_author_models, lines 108-139 *)

\* variant of the exclusion test of line 132 without the "sa" marker
ByExcludedNoSa(license_normalized) ==
    \/ Contains(license_normalized, s_nc)
    \/ Contains(license_normalized, s_nd)
    \/ Contains(license_normalized, s_noncommercial)
    \/ Contains(license_normalized, s_noderivatives)
    \/ Contains(license_normalized, s_sharealike)

ByExcluded(license_normalized) ==
    \/ Contains(license_normalized, s_nc)
    \/ Contains(license_normalized, s_nd)
    \/ Contains(license_normalized, s_sa)
    \/ Contains(license_normalized, s_noncommercial)
    \/ Contains(license_normalized, s_noderivatives)
    \/ Contains(license_normalized, s_sharealike)

AllowedMatches(license_label_lower, allowed) ==
    LET allowed_lower == Strip(Lower(allowed))
        license_normalized == Replace(Replace(license_label_lower, "-", " "), "_", " ")
        allowed_normalized == Replace(Replace(allowed_lower, "-", " "), "_", " ")
    IN  \/ license_label_lower = allowed_lower
        \/ license_normalized = allowed_normalized
        \/ /\ allowed_lower = s_by
           /\ \/ Contains(license_normalized, s_attribution)
              \/ Contains(license_normalized, s_cc) /\ Contains(license_normalized, s_by)
           /\ ~ByExcluded(license_normalized)
        \/ /\ allowed_lower = s_cc0
           /\ \/ Contains(license_normalized, s_cc0)
              \/ Contains(license_normalized, s_cc_0)

RECURSIVE MatchFrom(_, _, _)
MatchFrom(license_label_lower, allowed, k) ==
    IF k > Len(allowed) THEN FALSE
    ELSE IF AllowedMatches(license_label_lower, allowed[k]) THEN TRUE
    ELSE MatchFrom(license_label_lower, allowed, k + 1)

license_matches(label, allowed) ==
    LET license_label == Lower(label)
        license_label_lower == Strip(Lower(license_label))
    IN  MatchFrom(license_label_lower, [k \in 1..Len(allowed) |-> Lower(allowed[k])], 1)


-----------------------------------------------------------------------------
(* Remote service and inputs *)

u1 == <<"u","1">>
u2 == <<"u","2">>
UIDs == {u1, u2}

name1 == <<"R","/","b"," ">>

L_cc_attribution == <<"C","C"," ","A","t","t","r","i","b","u","t","i","o","n">>
L_cc_by_sa_40 == <<"C","C","-","B","Y","-","S","A"," ","4",".","0">>
L_cc_by_nc == <<"C","C","-","B","Y","-","N","C">>
L_cc0_10 == <<"C","C","0"," ","1",".","0">>
L_by == <<" ","B","y"," ">>
L_editorial == <<"E","d","i","t","o","r","i","a","l">>
L_cc_by_us == <<"c","c","_","b","y">>

NoLicense == [isNull |-> TRUE, label |-> <<>>]
LicenseOf(l) == [isNull |-> FALSE, label |-> l]

\* Catalog entries as returned by the listing endpoint.
Entry(uid, dl, lic) == [uid |-> uid, name |-> name1, isDownloadable |-> dl, license |-> lic]

Entries == {Entry(u1, TRUE, LicenseOf(L_cc_attribution)),
            Entry(u2, TRUE, LicenseOf(L_cc_attribution)),
            Entry(u1, FALSE, LicenseOf(L_cc_attribution)),
            Entry(u2, TRUE, LicenseOf(L_cc_by_nc)),
            Entry(u1, FALSE, LicenseOf(L_cc_by_nc)),
            Entry(u2, TRUE, NoLicense)}


SeqsUpTo(S, n) == UNION {[1..k -> S] : k \in 0..n}

fe1 == Entry(u1, TRUE, LicenseOf(L_cc_attribution))
fe2 == Entry(u2, FALSE, LicenseOf(L_cc_by_nc))

\* Responses of GET /models: a status and the "results" of the body.
FetchPages == [status : {200, 404}, results : {<<>>, <<fe1>>, <<fe2>>, <<fe1, fe2>>}]
Pages == [status : {200}, results : {<<e>> : e \in Entries}]
         \cup {[status |-> 404, results |-> <<>>]}

\* A listing is a chain of pages; page k carries a next pointer iff k is
\* not the last page of the chain.
PageChains(P, maxPages) == UNION {[1..n -> P] : n \in 1..maxPages}

Url_glb == <<"h","/","m",".","g","l","b","?","k">>
Url_bare == <<"h","/","g">>
URLs == {Url_glb, Url_bare}

NoField == [has |-> FALSE, url |-> <<>>]
Field(u) == [has |-> TRUE, url |-> u]

\* Responses of GET /models/<uid>/download.
ResolveResponses ==
    [kind : {"exception", "non200", "malformed"}, source : {NoField}, gltf : {NoField}]
    \cup {[kind |-> "body", source |-> NoField, gltf |-> NoField],
          [kind |-> "body", source |-> NoField, gltf |-> Field(Url_bare)],
          [kind |-> "body", source |-> Field(<<>>), gltf |-> Field(Url_bare)],
          [kind |-> "body", source |-> Field(Url_glb), gltf |-> Field(Url_bare)]}
ResolveUnset == [kind |-> "unset", source |-> NoField, gltf |-> NoField]

PayloadResponses == {"ok", "http_error", "open_error", "stream_error"}

s_bob == <<"b","o","b">>
TokenInputs == {<<>>, <<" ">>, <<"t">>}
UserInputs == {<<>>, <<" ">>, s_bob}

Alphabet == {"c", "b", "y", "n", "-", " "}
LabelInputs == SeqsUpTo(Alphabet, MaxLabelLen)
               \cup {L_cc_attribution, L_cc_by_sa_40, L_cc_by_nc, L_cc0_10, L_by,
                     L_editorial, L_cc_by_us}

Event(op, n, what, str) == [op |-> op, i |-> n, what |-> what, s |-> str]

-----------------------------------------------------------------------------
(* Initial states *)

InitCommon ==
    /\ run = 1
    /\ allowed_licenses = <<>>
    /\ url = 0
    /\ models = <<>>
    /\ i = 0
    /\ successful = 0
    /\ failed = 0
    /\ skipped_license = 0
    /\ license_result = FALSE
    /\ resolveResp = [u \in UIDs |-> ResolveUnset]
    /\ payloadResp = [u \in URLs |-> "unset"]
    /\ fs = {}
    /\ dirs = {}
    /\ log = <<>>
    /\ fs1 = {}
    /\ log1 = <<>>

\* The program is started through main(), or download_author_models is
\* called on a SketchfabDownloader(token_in).
Init ==
    /\ InitCommon
    /\ \/ /\ entry = "main"
          /\ token_in \in TokenInputs
          /\ user_in \in UserInputs
       \/ /\ entry = "download_author_models"
          /\ token_in \in {<<>>, <<"t">>}
          /\ user_in = s_bob
    /\ pc = entry
    /\ label_in = <<>>
    /\ api_token = IF entry = "main" THEN <<>> ELSE token_in
    /\ username = IF entry = "main" THEN <<>> ELSE user_in
    /\ remote_pages = <<>>

\* get_user_models called on its own.
InitFetch ==
    /\ InitCommon
    /\ entry = "get_user_models"
    /\ pc = entry
    /\ token_in \in {<<>>, <<"t">>}
    /\ user_in = s_bob
    /\ label_in = <<>>
    /\ api_token = token_in
    /\ username = user_in
    /\ remote_pages = <<>>

\* The license check applied to one label.
InitMatch ==
    /\ InitCommon
    /\ entry = "license_check"
    /\ pc = entry
    /\ token_in = <<>>
    /\ user_in = <<>>
    /\ label_in \in LabelInputs
    /\ api_token = <<>>
    /\ username = <<>>
    /\ remote_pages = <<>>

-----------------------------------------------------------------------------
(* get_user_models, lines 22-52 *)

InputsUnchanged == UNCHANGED <<entry, token_in, user_in, label_in>>
WorldUnchanged == InputsUnchanged /\ UNCHANGED remote_pages

\* the listing the service holds for the account; it is the same listing
\* whenever the program asks again
Listings ==
    IF entry = "get_user_models"
    THEN PageChains(FetchPages, MaxFetchPages)
    ELSE PageChains(Pages, MaxPages)

\* lines 24-31
GetUserModelsStart ==
    /\ pc = "get_user_models"
    /\ \E chain \in Listings :
          /\ remote_pages \in {<<>>, chain}
          /\ remote_pages' = chain
    /\ models' = <<>>
    /\ url' = 1
    /\ pc' = "fetch"
    /\ InputsUnchanged
    /\ UNCHANGED <<run, api_token, username, allowed_licenses, i, successful,
                   failed, skipped_license, license_result, resolveResp,
                   payloadResp, fs, dirs, log, fs1, log1>>

NextPointer(k) == IF k < Len(remote_pages) THEN k + 1 ELSE 0

\* variant of the 200 iteration that ignores the next pointer
FetchPageOk_NoFollow ==
    /\ pc = "fetch"
    /\ url # 0
    /\ remote_pages[url].status = 200
    /\ models' = models \o remote_pages[url].results
    /\ url' = 0
    /\ log' = log \o <<Event("get_page", url, "", <<>>), Event("sleep", 0, "0.2", <<>>)>>
    /\ pc' = "fetch"
    /\ WorldUnchanged
    /\ UNCHANGED <<run, api_token, username, allowed_licenses, i, successful,
                   failed, skipped_license, license_result, resolveResp,
                   payloadResp, fs, dirs, fs1, log1>>

\* one iteration of the while loop with a 200 response, lines 33-50
FetchPageOk ==
    /\ pc = "fetch"
    /\ url # 0
    /\ remote_pages[url].status = 200
    /\ models' = models \o remote_pages[url].results
    /\ url' = NextPointer(url)
    /\ log' = log \o <<Event("get_page", url, "", <<>>), Event("sleep", 0, "0.2", <<>>)>>
    /\ pc' = "fetch"
    /\ WorldUnchanged
    /\ UNCHANGED <<run, api_token, username, allowed_licenses, i, successful,
                   failed, skipped_license, license_result, resolveResp,
                   payloadResp, fs, dirs, fs1, log1>>

\* variant of the non-200 iteration that goes on to the next page
FetchPageError_Continue ==
    /\ pc = "fetch"
    /\ url # 0
    /\ remote_pages[url].status # 200
    /\ log' = log \o <<Event("get_page", url, "", <<>>), Event("print", url, "error_fetching", <<>>)>>
    /\ url' = NextPointer(url)
    /\ pc' = "fetch"
    /\ WorldUnchanged
    /\ UNCHANGED <<run, api_token, username, allowed_licenses, models, i,
                   successful, failed, skipped_license, license_result,
                   resolveResp, payloadResp, fs, dirs, fs1, log1>>

\* one iteration with a non-200 response: break, lines 36-39
FetchPageError ==
    /\ pc = "fetch"
    /\ url # 0
    /\ remote_pages[url].status # 200
    /\ log' = log \o <<Event("get_page", url, "", <<>>), Event("print", url, "error_fetching", <<>>)>>
    /\ pc' = "fetched"
    /\ WorldUnchanged
    /\ UNCHANGED <<run, api_token, username, allowed_licenses, url, models, i,
                   successful, failed, skipped_license, license_result,
                   resolveResp, payloadResp, fs, dirs, fs1, log1>>

\* the loop condition fails, line 33
FetchLoopEnd ==
    /\ pc = "fetch"
    /\ url = 0
    /\ pc' = "fetched"
    /\ WorldUnchanged
    /\ UNCHANGED <<run, api_token, username, allowed_licenses, url, models, i,
                   successful, failed, skipped_license, license_result,
                   resolveResp, payloadResp, fs, dirs, log, fs1, log1>>

\* line 52, returning to a direct caller
GetUserModelsReturn ==
    /\ pc = "fetched"
    /\ entry = "get_user_models"
    /\ pc' = "done"
    /\ WorldUnchanged
    /\ UNCHANGED <<run, api_token, username, allowed_licenses, url, models, i,
                   successful, failed, skipped_license, license_result,
                   resolveResp, payloadResp, fs, dirs, log, fs1, log1>>

NextFetch ==
    \/ GetUserModelsStart
    \/ FetchPageOk
    \/ FetchPageError
    \/ FetchLoopEnd
    \/ GetUserModelsReturn

SpecFetch == InitFetch /\ [][NextFetch]_vars
FairSpecFetch == SpecFetch /\ WF_vars(NextFetch)

-----------------------------------------------------------------------------
(* The license check on its own *)

LicenseCheck ==
    /\ pc = "license_check"
    /\ \E allowed \in {<<s_by>>, DefaultLicenses} :
          /\ allowed_licenses' = allowed
          /\ license_result' = license_matches(label_in, allowed)
    /\ pc' = "done"
    /\ WorldUnchanged
    /\ UNCHANGED <<run, api_token, username, url, models, i, successful,
                   failed, skipped_license, resolveResp, payloadResp, fs,
                   dirs, log, fs1, log1>>

NextMatch == LicenseCheck

SpecMatch == InitMatch /\ [][NextMatch]_vars


-----------------------------------------------------------------------------
(* main, lines 227-279 *)

MainFrame ==
    /\ WorldUnchanged
    /\ UNCHANGED <<run, url, models, i, successful, failed, skipped_license,
                   license_result, resolveResp, payloadResp, fs, dirs, fs1, log1>>

\* lines 253-257
MainNoToken ==
    /\ pc = "main"
    /\ ~Truthy(Strip(token_in))
    /\ api_token' = Strip(token_in)
    /\ log' = log \o <<Event("print", 0, "error_token_required", <<>>)>>
    /\ pc' = "done"
    /\ UNCHANGED <<username, allowed_licenses>>
    /\ MainFrame

\* lines 260-264
MainNoUsername ==
    /\ pc = "main"
    /\ Truthy(Strip(token_in))
    /\ ~Truthy(Strip(user_in))
    /\ api_token' = Strip(token_in)
    /\ username' = Strip(user_in)
    /\ log' = log \o <<Event("print", 0, "error_username_required", <<>>)>>
    /\ pc' = "done"
    /\ UNCHANGED allowed_licenses
    /\ MainFrame

\* variant of lines 266-279 reached without the username test
MainStart_NoUserCheck ==
    /\ pc = "main"
    /\ Truthy(Strip(token_in))
    /\ api_token' = Strip(token_in)
    /\ username' = Strip(user_in)
    /\ allowed_licenses' = DefaultLicenses
    /\ pc' = "download_author_models"
    /\ UNCHANGED log
    /\ MainFrame

\* lines 266-279
MainStart ==
    /\ pc = "main"
    /\ Truthy(Strip(token_in))
    /\ Truthy(Strip(user_in))
    /\ api_token' = Strip(token_in)
    /\ username' = Strip(user_in)
    /\ allowed_licenses' = DefaultLicenses
    /\ pc' = "download_author_models"
    /\ UNCHANGED log
    /\ MainFrame

-----------------------------------------------------------------------------
(* download_author_models, lines 54-224 *)

output_path == <<s_downloads, username>>

\* lines 56-58
DamNoToken ==
    /\ pc = "download_author_models"
    /\ ~Truthy(api_token)
    /\ log' = log \o <<Event("print", 0, "error_token_required", <<>>)>>
    /\ pc' = "done"
    /\ WorldUnchanged
    /\ UNCHANGED <<run, api_token, username, allowed_licenses, url, models, i,
                   successful, failed, skipped_license, license_result,
                   resolveResp, payloadResp, fs, dirs, fs1, log1>>

\* lines 60-71, up to the call of get_user_models
DamStart ==
    /\ pc = "download_author_models"
    /\ Truthy(api_token)
    /\ allowed_licenses' =
          LET al == IF allowed_licenses = <<>> THEN DefaultLicenses ELSE allowed_licenses
          IN  [k \in 1..Len(al) |-> Lower(al[k])]
    /\ dirs' = dirs \cup {output_path}
    /\ log' = log \o <<Event("mkdir", 0, "", <<>>)>>
    /\ pc' = "get_user_models"
    /\ WorldUnchanged
    /\ UNCHANGED <<run, api_token, username, url, models, i, successful,
                   failed, skipped_license, license_result, resolveResp,
                   payloadResp, fs, fs1, log1>>

\* lines 73-75
DamNoModels ==
    /\ pc = "fetched"
    /\ entry # "get_user_models"
    /\ models = <<>>
    /\ log' = log \o <<Event("print", 0, "no_models", <<>>)>>
    /\ pc' = "done"
    /\ WorldUnchanged
    /\ UNCHANGED <<run, api_token, username, allowed_licenses, url, models, i,
                   successful, failed, skipped_license, license_result,
                   resolveResp, payloadResp, fs, dirs, fs1, log1>>

\* lines 77-90
DamSaveMetadata ==
    /\ pc = "fetched"
    /\ entry # "get_user_models"
    /\ models # <<>>
    /\ fs' = fs \cup {output_path \o <<s_metadata>>}
    /\ log' = log \o <<Event("write_metadata", 0, "", s_metadata)>>
    /\ successful' = 0
    /\ failed' = 0
    /\ skipped_license' = 0
    /\ i' = 1
    /\ pc' = "items"
    /\ WorldUnchanged
    /\ UNCHANGED <<run, api_token, username, allowed_licenses, url, models,
                   license_result, resolveResp, payloadResp, dirs, fs1, log1>>

\* line 100-101
Sanitize(model_name) ==
    LET kept == SelectSeq(model_name, LAMBDA c : IsAlnum(c) \/ c \in {" ", "-", "_"})
        safe_name == Strip(kept)
    IN  SubSeq(safe_name, 1, IF Len(safe_name) < 100 THEN Len(safe_name) ELSE 100)

AfterLast(str, c) ==
    LET at == {k \in 1..Len(str) : str[k] = c}
    IN  IF at = {} THEN str ELSE SubSeq(str, SetMax(at) + 1, Len(str))

BeforeFirst(str, c) ==
    LET at == {k \in 1..Len(str) : str[k] = c}
    IN  IF at = {} THEN str ELSE SubSeq(str, 1, SetMin(at) - 1)

\* lines 176-179
Ext(download_url) ==
    IF "." \in Range(AfterLast(download_url, "/"))
    THEN <<".">> \o BeforeFirst(AfterLast(download_url, "."), "?")
    ELSE s_zip

\* line 181
FileName(model, download_url) ==
    Sanitize(model.name) \o <<"_">> \o model.uid \o Ext(download_url)

FilePath(model, download_url) == output_path \o <<FileName(model, download_url)>>

\* lines 164-169
DownloadUrl(data) ==
    IF data.source.has THEN data.source.url
    ELSE IF data.gltf.has THEN data.gltf.url
    ELSE <<>>

\* variant of line 184 that never finds the file
ExistsNever(filepath) == FALSE

\* line 184
Exists(filepath) == filepath \in fs

\* variant of lines 141-150 without the isDownloadable test
AttemptableNoFlag(model) == license_result

\* lines 141-150: the entry reaches the download attempt
Attemptable(model) == license_result /\ model.isDownloadable

InLoop == pc = "items" /\ i <= Len(models)
Checked == pc = "item_checked"

ItemFrame ==
    /\ WorldUnchanged
    /\ UNCHANGED <<run, api_token, username, allowed_licenses, url, models,
                   dirs, fs1, log1>>

\* the responses of the remote service are fixed per asset and per location
Resolves(uid, r) == r \in ResolveResponses /\ resolveResp[uid] \in {ResolveUnset, r}
Transfers(u, p) == p \in PayloadResponses /\ payloadResp[u] \in {"unset", p}

\* lines 96-97: "license": null makes license_info.get raise outside the try
ItemFieldError ==
    /\ InLoop
    /\ models[i].license.isNull
    /\ log' = log \o <<Event("raise", i, "attribute_error", <<>>),
                       Event("print", i, "traceback", <<>>)>>
    /\ pc' = "crashed"
    /\ UNCHANGED <<i, successful, failed, skipped_license, license_result,
                   resolveResp, payloadResp, fs>>
    /\ ItemFrame

\* lines 93-139: the fields of the entry and the license loop
ItemLicenseCheck ==
    /\ InLoop
    /\ ~models[i].license.isNull
    /\ license_result' = license_matches(models[i].license.label, allowed_licenses)
    /\ log' = log \o <<Event("print", i, "header", models[i].uid)>>
    /\ pc' = "item_checked"
    /\ UNCHANGED <<i, successful, failed, skipped_license, resolveResp,
                   payloadResp, fs>>
    /\ ItemFrame

\* lines 141-144
ItemSkipLicense ==
    /\ Checked
    /\ ~license_result
    /\ skipped_license' = skipped_license + 1
    /\ log' = log \o <<Event("print", i, "skipped_license", <<>>)>>
    /\ i' = i + 1
    /\ pc' = "items"
    /\ UNCHANGED <<license_result, successful, failed, resolveResp, payloadResp, fs>>
    /\ ItemFrame

\* variant of lines 146-149 placed before the license test
ItemNotDownloadable_First ==
    /\ Checked
    /\ ~models[i].isDownloadable
    /\ failed' = failed + 1
    /\ log' = log \o <<Event("print", i, "not_downloadable", <<>>)>>
    /\ i' = i + 1
    /\ pc' = "items"
    /\ UNCHANGED <<license_result, successful, skipped_license, resolveResp, payloadResp, fs>>
    /\ ItemFrame

\* lines 146-149
ItemNotDownloadable ==
    /\ Checked
    /\ license_result
    /\ ~models[i].isDownloadable
    /\ failed' = failed + 1
    /\ log' = log \o <<Event("print", i, "not_downloadable", <<>>)>>
    /\ i' = i + 1
    /\ pc' = "items"
    /\ UNCHANGED <<license_result, successful, skipped_license, resolveResp, payloadResp, fs>>
    /\ ItemFrame

\* line 155 raises (timeout, connection error): caught at 212, sleep at 216
ItemResolveException ==
    /\ Checked
    /\ Attemptable(models[i])
    /\ \E r \in ResolveResponses :
          /\ Resolves(models[i].uid, r)
          /\ r.kind = "exception"
          /\ resolveResp' = [resolveResp EXCEPT ![models[i].uid] = r]
    /\ failed' = failed + 1
    /\ log' = log \o <<Event("get_download", i, "", models[i].uid),
                       Event("raise", i, "transport", <<>>),
                       Event("print", i, "failed_exception", <<>>),
                       Event("sleep", i, "0.3", <<>>)>>
    /\ i' = i + 1
    /\ pc' = "items"
    /\ UNCHANGED <<license_result, successful, skipped_license, payloadResp, fs>>
    /\ ItemFrame

\* lines 157-160: continue, passing over the sleep of line 216
ItemResolveFailed ==
    /\ Checked
    /\ Attemptable(models[i])
    /\ \E r \in ResolveResponses :
          /\ Resolves(models[i].uid, r)
          /\ r.kind = "non200"
          /\ resolveResp' = [resolveResp EXCEPT ![models[i].uid] = r]
    /\ failed' = failed + 1
    /\ log' = log \o <<Event("get_download", i, "", models[i].uid),
                       Event("print", i, "resolve_failed", <<>>)>>
    /\ i' = i + 1
    /\ pc' = "items"
    /\ UNCHANGED <<license_result, successful, skipped_license, payloadResp, fs>>
    /\ ItemFrame

\* variant in which the exception of line 162 is not caught
ItemResolveMalformed_Propagates ==
    /\ Checked
    /\ Attemptable(models[i])
    /\ \E r \in ResolveResponses :
          /\ Resolves(models[i].uid, r)
          /\ r.kind = "malformed"
          /\ resolveResp' = [resolveResp EXCEPT ![models[i].uid] = r]
    /\ log' = log \o <<Event("get_download", i, "", models[i].uid),
                       Event("raise", i, "json", <<>>),
                       Event("print", i, "traceback", <<>>)>>
    /\ pc' = "crashed"
    /\ UNCHANGED <<license_result, i, failed, successful, skipped_license, payloadResp, fs>>
    /\ ItemFrame

\* line 162 raises on a body that is not JSON: caught at 212
ItemResolveMalformed ==
    /\ Checked
    /\ Attemptable(models[i])
    /\ \E r \in ResolveResponses :
          /\ Resolves(models[i].uid, r)
          /\ r.kind = "malformed"
          /\ resolveResp' = [resolveResp EXCEPT ![models[i].uid] = r]
    /\ failed' = failed + 1
    /\ log' = log \o <<Event("get_download", i, "", models[i].uid),
                       Event("raise", i, "json", <<>>),
                       Event("print", i, "failed_exception", <<>>),
                       Event("sleep", i, "0.3", <<>>)>>
    /\ i' = i + 1
    /\ pc' = "items"
    /\ UNCHANGED <<license_result, successful, skipped_license, payloadResp, fs>>
    /\ ItemFrame

\* lines 164-174: continue, passing over the sleep of line 216
ItemNoDownloadUrl ==
    /\ Checked
    /\ Attemptable(models[i])
    /\ \E r \in ResolveResponses :
          /\ Resolves(models[i].uid, r)
          /\ r.kind = "body"
          /\ ~Truthy(DownloadUrl(r))
          /\ resolveResp' = [resolveResp EXCEPT ![models[i].uid] = r]
    /\ failed' = failed + 1
    /\ log' = log \o <<Event("get_download", i, "", models[i].uid),
                       Event("print", i, "no_download_url", <<>>)>>
    /\ i' = i + 1
    /\ pc' = "items"
    /\ UNCHANGED <<license_result, successful, skipped_license, payloadResp, fs>>
    /\ ItemFrame

\* lines 183-189
ItemAlreadyExists ==
    /\ Checked
    /\ Attemptable(models[i])
    /\ \E r \in ResolveResponses :
          /\ Resolves(models[i].uid, r)
          /\ r.kind = "body"
          /\ Truthy(DownloadUrl(r))
          /\ Exists(FilePath(models[i], DownloadUrl(r)))
          /\ resolveResp' = [resolveResp EXCEPT ![models[i].uid] = r]
    /\ successful' = successful + 1
    /\ log' = log \o <<Event("get_download", i, "", models[i].uid),
                       Event("print", i, "already_exists", <<>>),
                       Event("sleep", i, "0.1", <<>>)>>
    /\ i' = i + 1
    /\ pc' = "items"
    /\ UNCHANGED <<license_result, failed, skipped_license, payloadResp, fs>>
    /\ ItemFrame

\* lines 191-210, 216
ItemDownloaded ==
    /\ Checked
    /\ Attemptable(models[i])
    /\ \E r \in ResolveResponses :
          /\ Resolves(models[i].uid, r)
          /\ r.kind = "body"
          /\ Truthy(DownloadUrl(r))
          /\ ~Exists(FilePath(models[i], DownloadUrl(r)))
          /\ Transfers(DownloadUrl(r), "ok")
          /\ resolveResp' = [resolveResp EXCEPT ![models[i].uid] = r]
          /\ payloadResp' = [payloadResp EXCEPT ![DownloadUrl(r)] = "ok"]
          /\ fs' = fs \cup {FilePath(models[i], DownloadUrl(r))}
          /\ log' = log \o <<Event("get_download", i, "", models[i].uid),
                             Event("get_payload", i, "", DownloadUrl(r)),
                             Event("open_file", i, "", FileName(models[i], DownloadUrl(r))),
                             Event("print", i, "success", <<>>),
                             Event("sleep", i, "0.3", <<>>)>>
    /\ successful' = successful + 1
    /\ i' = i + 1
    /\ pc' = "items"
    /\ UNCHANGED <<license_result, failed, skipped_license>>
    /\ ItemFrame

\* lines 192-207 raise: raise_for_status (http_error), open (open_error) or
\* the body transfer inside the with block (stream_error); caught at 212
ItemDownloadException ==
    /\ Checked
    /\ Attemptable(models[i])
    /\ \E r \in ResolveResponses, p \in PayloadResponses \ {"ok"} :
          /\ Resolves(models[i].uid, r)
          /\ r.kind = "body"
          /\ Truthy(DownloadUrl(r))
          /\ ~Exists(FilePath(models[i], DownloadUrl(r)))
          /\ Transfers(DownloadUrl(r), p)
          /\ resolveResp' = [resolveResp EXCEPT ![models[i].uid] = r]
          /\ payloadResp' = [payloadResp EXCEPT ![DownloadUrl(r)] = p]
          /\ fs' = IF p = "stream_error"
                   THEN fs \cup {FilePath(models[i], DownloadUrl(r))}
                   ELSE fs
          /\ log' = log
               \o <<Event("get_download", i, "", models[i].uid),
                    Event("get_payload", i, "", DownloadUrl(r))>>
               \o (IF p = "stream_error"
                   THEN <<Event("open_file", i, "", FileName(models[i], DownloadUrl(r)))>>
                   ELSE <<>>)
               \o <<Event("raise", i, p, <<>>),
                    Event("print", i, "failed_exception", <<>>),
                    Event("sleep", i, "0.3", <<>>)>>
    /\ failed' = failed + 1
    /\ i' = i + 1
    /\ pc' = "items"
    /\ UNCHANGED <<license_result, successful, skipped_license>>
    /\ ItemFrame

\* lines 218-224
Summary ==
    /\ pc = "items"
    /\ i > Len(models)
    /\ log' = log \o <<Event("print", 0, "summary", <<>>)>>
    /\ pc' = "done"
    /\ UNCHANGED <<i, successful, failed, skipped_license, license_result,
                   resolveResp, payloadResp, fs>>
    /\ ItemFrame

\* the program is run a second time on the same output directory, with the
\* same inputs and the same remote service
Rerun ==
    /\ pc \in {"done", "crashed"}
    /\ run = 1
    /\ run' = 2
    /\ fs1' = fs
    /\ log1' = log
    /\ log' = <<>>
    /\ pc' = entry
    /\ api_token' = IF entry = "main" THEN <<>> ELSE token_in
    /\ username' = IF entry = "main" THEN <<>> ELSE user_in
    /\ allowed_licenses' = <<>>
    /\ url' = 0
    /\ models' = <<>>
    /\ i' = 0
    /\ successful' = 0
    /\ failed' = 0
    /\ skipped_license' = 0
    /\ license_result' = FALSE
    /\ WorldUnchanged
    /\ UNCHANGED <<resolveResp, payloadResp, fs, dirs>>

Next ==
    \/ MainNoToken
    \/ MainNoUsername
    \/ MainStart
    \/ DamNoToken
    \/ DamStart
    \/ GetUserModelsStart
    \/ FetchPageOk
    \/ FetchPageError
    \/ FetchLoopEnd
    \/ DamNoModels
    \/ DamSaveMetadata
    \/ ItemFieldError
    \/ ItemLicenseCheck
    \/ ItemSkipLicense
    \/ ItemNotDownloadable
    \/ ItemResolveException
    \/ ItemResolveFailed
    \/ ItemResolveMalformed
    \/ ItemNoDownloadUrl
    \/ ItemAlreadyExists
    \/ ItemDownloaded
    \/ ItemDownloadException
    \/ Summary
    \/ Rerun

Spec == Init /\ [][Next]_vars

-----------------------------------------------------------------------------
(* Observations on the event log *)

Ops(l, op) == SelectSeq(l, LAMBDA e : e.op = op)
Indices(l) == [k \in 1..Len(l) |-> l[k].i]

RECURSIVE ConcatResults(_)
ConcatResults(n) ==
    IF n = 0 THEN <<>> ELSE ConcatResults(n - 1) \o remote_pages[n].results

AllPagesOk == remote_pages # <<>> /\ \A k \in 1..Len(remote_pages) : remote_pages[k].status = 200

\* index of the first page answered with a non-200 status (0 if none)
FirstBadPage ==
    IF AllPagesOk \/ remote_pages = <<>> THEN 0
    ELSE SetMin({k \in 1..Len(remote_pages) : remote_pages[k].status # 200})

Returned == pc \in {"fetched", "done"}

-----------------------------------------------------------------------------
\* the result of a fetch whose pages all answered 200
C1_ReturnsAll ==
    (Returned /\ AllPagesOk) =>
        /\ Indices(Ops(log, "get_page")) = [k \in 1..Len(remote_pages) |-> k]
        /\ models = ConcatResults(Len(remote_pages))

(* C1: when every one of the N listing pages answers 200 and only the last *)
(* lacks a next pointer, get_user_models issues exactly the page requests  *)
(* 1..N in order, returns the concatenation of the pages' entries in page  *)
(* order, and terminates.                                                  *)
C1_Pagination ==
    /\ [](C1_ReturnsAll /\ Len(Ops(log, "get_page")) <= Len(remote_pages))
    /\ AllPagesOk ~> (pc = "done")

C1_Witness ==
    /\ pc = "done"
    /\ AllPagesOk
    /\ Len(remote_pages) = 3
    /\ Len(Ops(log, "get_page")) = 3
    /\ Len(models) >= 4
    /\ models[1] # models[2]

(* C2: when page k is the first to answer with a non-200 status,           *)
(* get_user_models issues the page requests 1..k and no other, does not    *)
(* raise, and returns exactly the entries of pages 1..k-1 in order.        *)
C2_PartialCatalog ==
    /\ pc # "crashed"
    /\ (Returned /\ FirstBadPage # 0) =>
          /\ Indices(Ops(log, "get_page")) = [k \in 1..FirstBadPage |-> k]
          /\ models = ConcatResults(FirstBadPage - 1)

C2_Witness ==
    /\ pc = "done"
    /\ Len(remote_pages) = 3
    /\ FirstBadPage = 2
    /\ Len(Ops(log, "get_page")) = 2
    /\ models = remote_pages[1].results
    /\ Len(models) = 2

-----------------------------------------------------------------------------
(* C5: with the filter <<"by">> the license check accepts a label exactly  *)
(* when the label, lowercased, trimmed and with '-' and '_' replaced by    *)
(* spaces, equals "by", or contains "attribution" or both "cc" and "by"    *)
(* and none of the six restriction markers; "CC Attribution" is accepted,  *)
(* "CC-BY-SA 4.0" and "CC-BY-NC" are rejected.                             *)
ByNormal(l) == Replace(Replace(Strip(Lower(l)), "-", " "), "_", " ")

ByCharacterisation(l) ==
    LET n == ByNormal(l)
    IN  \/ n = s_by
        \/ /\ Contains(n, s_attribution) \/ (Contains(n, s_cc) /\ Contains(n, s_by))
           /\ \A x \in {s_nc, s_nd, s_sa, s_noncommercial, s_noderivatives, s_sharealike} :
                 ~Contains(n, x)

C5_ByPredicate ==
    (pc = "done" /\ entry = "license_check" /\ allowed_licenses = <<s_by>>) =>
        /\ license_result = ByCharacterisation(label_in)
        /\ label_in = L_cc_attribution => license_result
        /\ label_in \in {L_cc_by_sa_40, L_cc_by_nc} => ~license_result

C5_Witness ==
    /\ pc = "done"
    /\ allowed_licenses = <<s_by>>
    /\ label_in = L_cc_by_sa_40
    /\ ~license_result


-----------------------------------------------------------------------------
(* Observations on the download loop *)

ItemReports == {"skipped_license", "not_downloadable", "resolve_failed",
                "no_download_url", "already_exists", "success", "failed_exception"}

Reports(l) == SelectSeq(l, LAMBDA e : e.op = "print" /\ e.what \in ItemReports)

Has(l, op, n) == \E k \in 1..Len(l) : l[k].op = op /\ l[k].i = n
Printed(l, what, n) == \E k \in 1..Len(l) : l[k].op = "print" /\ l[k].what = what /\ l[k].i = n

Passes(model) ==
    /\ ~model.license.isNull
    /\ license_matches(model.license.label, allowed_licenses)

(* C3: no resolution request and no payload request is issued for an       *)
(* entry whose license fails the check or whose downloadable flag is false.*)
C3_NoRequestForFiltered ==
    \A k \in 1..Len(log) :
        log[k].op \in {"get_download", "get_payload"} =>
            /\ log[k].i \in 1..Len(models)
            /\ models[log[k].i].isDownloadable
            /\ Passes(models[log[k].i])

C3_Witness ==
    /\ pc = "done"
    /\ Len(models) = 2
    /\ ~models[1].isDownloadable /\ Passes(models[1])
    /\ Printed(log, "not_downloadable", 1)
    /\ Has(log, "get_download", 2)

(* C6: with an empty token or an empty username given to main(), or        *)
(* download_author_models called without a token, the run reports the     *)
(* error and ends with no network request, no directory and no file.       *)
MissingConfig ==
    \/ entry = "main" /\ (Strip(token_in) = <<>> \/ Strip(user_in) = <<>>)
    \/ entry = "download_author_models" /\ token_in = <<>>

C6_AbortsBeforeActivity ==
    MissingConfig =>
        /\ dirs = {} /\ fs = {}
        /\ \A k \in 1..Len(log) : log[k].op = "print"
        /\ \A k \in 1..Len(log1) : log1[k].op = "print"
        /\ pc \in {entry, "done"}
        /\ pc = "done" =>
              \/ Printed(log, "error_token_required", 0)
              \/ Printed(log, "error_username_required", 0)

C6_Witness ==
    /\ pc = "done"
    /\ entry = "main"
    /\ token_in = <<"t">>
    /\ user_in = <<" ">>
    /\ Printed(log, "error_username_required", 0)
    /\ dirs = {}

(* C7 as stated: an exception that is not a transport failure (a malformed *)
(* resolution body, a failure to open the destination file) terminates the *)
(* run.                                                                    *)
C7_OnlyTransportCaught ==
    \A k \in 1..Len(log) :
        (log[k].op = "raise" /\ log[k].what \in {"json", "open_error", "attribute_error"})
            => pc = "crashed"

NewEvents ==
    IF Len(log') >= Len(log) THEN SubSeq(log', Len(log) + 1, Len(log')) ELSE <<>>

(* C7: every exception raised inside the download attempt (resolution      *)
(* request, body parsing, payload request, opening or writing the file)    *)
(* is caught, tallied as Failed and followed by the next entry; an         *)
(* exception raised while reading the entry's fields, before the attempt,  *)
(* terminates the run.                                                     *)
C7_CatchAll ==
    [][\A k \in 1..Len(NewEvents) :
          NewEvents[k].op = "raise" =>
             IF NewEvents[k].what = "attribute_error"
             THEN pc' = "crashed" /\ failed' = failed
             ELSE /\ pc' = "items"
                  /\ failed' = failed + 1
                  /\ i' = i + 1
                  /\ successful' = successful
                  /\ skipped_license' = skipped_license]_vars

C7_Witness ==
    /\ pc = "done"
    /\ Printed(log, "summary", 0)
    /\ \E k \in 1..Len(log) : log[k].op = "raise" /\ log[k].what = "json" /\ log[k].i = 1
    /\ \E k \in 1..Len(log) : log[k].op = "raise" /\ log[k].what = "open_error" /\ log[k].i = 2
    /\ failed = 2

(* C8: between two consecutive resolution requests there is a sleep.       *)
C8_DelayBetweenAttempts ==
    \A j, k \in 1..Len(log) :
        (j < k /\ log[j].op = "get_download" /\ log[k].op = "get_download")
            => \E m \in (j + 1)..(k - 1) : log[m].op = "sleep"

(* C9: the location comes from "source" when it carries a non-empty one    *)
(* and otherwise from "gltf"; "no download URL" is reported only when      *)
(* neither carries a non-empty location, and then no payload is requested. *)
Usable(field) == field.has /\ Truthy(field.url)

C9_LocationFallback ==
    \A k \in 1..Len(log) :
        LET r == resolveResp[models[log[k].i].uid]
        IN  /\ (log[k].op = "print" /\ log[k].what = "no_download_url") =>
                  /\ ~Usable(r.source) /\ ~Usable(r.gltf)
                  /\ ~Has(log, "get_payload", log[k].i)
            /\ log[k].op = "get_payload" =>
                  log[k].s = IF Usable(r.source) THEN r.source.url ELSE r.gltf.url

(* C10: entries are processed in catalog order and each increments exactly *)
(* one counter once: after i entries the three counters sum to i, at the   *)
(* summary they sum to the catalog length, and an entry that fails the     *)
(* license check and is not downloadable counts as skipped_license.        *)
Count(l, whats) == Len(SelectSeq(l, LAMBDA e : e.what \in whats))

C10_Tally ==
    (pc \in {"items", "item_checked", "crashed"} \/ Printed(log, "summary", 0)) =>
        LET rep == Reports(log)
        IN  /\ Indices(rep) = [k \in 1..(i - 1) |-> k]
            /\ successful + failed + skipped_license = i - 1
            /\ successful = Count(rep, {"already_exists", "success"})
            /\ skipped_license = Count(rep, {"skipped_license"})
            /\ failed = Count(rep, {"not_downloadable", "resolve_failed",
                                    "no_download_url", "failed_exception"})
            /\ Printed(log, "summary", 0) => i - 1 = Len(models)
            /\ \A k \in 1..Len(rep) :
                  (~models[k].isDownloadable /\ ~Passes(models[k]))
                      => rep[k].what = "skipped_license"

C10_Witness ==
    /\ Printed(log, "summary", 0)
    /\ Len(models) = 2
    /\ ~Passes(models[1]) /\ ~models[1].isDownloadable
    /\ skipped_license = 1
    /\ successful = 1

-----------------------------------------------------------------------------
(* Two runs on the same output directory *)

Finished2 == run = 2 /\ pc \in {"done", "crashed"}

\* entries that had their file on disk in the first run
HadFile1 == {n \in 1..Len(models) :
                Has(log1, "open_file", n) \/ Printed(log1, "already_exists", n)}

SameFilesAndSkips ==
    /\ fs = fs1
    /\ \A n \in HadFile1 : Printed(log, "already_exists", n)
    /\ successful >= Cardinality(HadFile1)

(* C4 as stated: the second run leaves the same files, reports every entry *)
(* that had its file written in the first run as already existing and      *)
(* successful, and issues no payload request at all.                       *)
C4_NoTransferAtAll ==
    Finished2 => (SameFilesAndSkips /\ Ops(log, "get_payload") = <<>>)

(* C4: the second run leaves the same files, reports every entry that had  *)
(* its file written in the first run as already existing and successful,   *)
(* and issues no payload request for those entries; a payload request of  *)
(* the second run is always for an entry whose payload request failed in   *)
(* the first run without leaving a file.                                   *)
C4_Idempotent ==
    Finished2 =>
        /\ SameFilesAndSkips
        /\ \A n \in HadFile1 : ~Has(log, "get_payload", n)
        /\ \A k \in 1..Len(log) :
              log[k].op = "get_payload" =>
                 /\ Has(log1, "get_payload", log[k].i)
                 /\ \E j \in 1..Len(log1) :
                       /\ log1[j].op = "raise"
                       /\ log1[j].i = log[k].i
                       /\ log1[j].what \in {"http_error", "open_error"}

C4_Witness ==
    /\ Finished2
    /\ Len(models) = 2
    /\ Has(log1, "open_file", 1)
    /\ Printed(log1, "success", 1)
    /\ Printed(log, "already_exists", 1)
    /\ Has(log, "get_payload", 2)
    /\ successful = 1

====
